---- MODULE Spec2Model ----
(***************************************************************************)
(* Model of rag_agent.py: the data operations over the store, the tool     *)
(* dispatcher execute_tool, the tool-use loop get_ai_response and the      *)
(* session handling of main.                                               *)
(*                                                                         *)
(* Conventions.  A Python str is a sequence of one-character strings.  An  *)
(* optional value is None (the empty tuple) or Some(v) (a one-element      *)
(* tuple).  A 'YYYY-MM-DD' date is a day number >= 1.  A pandas DataFrame  *)
(* is the sequence of its rows; a dict is a record.  A Python call either  *)
(* returns (Return) or raises (Raise).  Cyrillic literals of the source    *)
(* are transliterated.                                                     *)
(***************************************************************************)
EXTENDS Integers, Sequences, FiniteSets, TLC

VARIABLES
    store,      \* the tables of the relational store
    call,       \* the data operation or dispatch last made: name, arguments, failing queries, rerun pending
    result,     \* what the data operation did: Return(envelope) or Raise(error)
    output,     \* the text execute_tool returned for it
    session_messages,   \* st.session_state.messages
    tools_log,          \* st.session_state.tools_log
    pc,                 \* where main / get_ai_response stands
    user_input,         \* the input being handled
    chat_history,       \* get_ai_response: the list passed as chat_history
    messages,           \* get_ai_response: the transcript sent to the model
    tools_used,         \* get_ai_response: the audit entries of this call
    response,           \* get_ai_response: the last response of the model
    tool_calls,         \* get_ai_response: the tool_use blocks of the response
    tool_results,       \* get_ai_response: the results assembled so far
    final_response,     \* get_ai_response: the text returned
    before,             \* history: session_messages when the input arrived
    dispatched,         \* history: every execute_tool call since the session was cleared
    rounds,             \* history: invocation rounds since the session was cleared
    turns,              \* history: inputs handled since the session was cleared
    outcome             \* history: how the last handled input ended

dalVars == <<store, call, result, output>>

historyVars == <<before, dispatched, rounds, turns, outcome>>

agentVars == <<session_messages, tools_log, pc, user_input, chat_history, messages, tools_used,
               response, tool_calls, tool_results, final_response, before, dispatched, rounds,
               turns, outcome>>

vars == <<store, call, result, output, session_messages, tools_log, pc, user_input,
          chat_history, messages, tools_used, response, tool_calls, tool_results,
          final_response, before, dispatched, rounds, turns, outcome>>

-----------------------------------------------------------------------------
(* Bounds of the exploration *)

MaxRecords == 2     \* rows in the store, all tables together
MaxTurns == 2       \* user inputs handled in a session
MaxRounds == 2      \* invocation rounds explored in a session
MaxBlocks == 2      \* content blocks of one model response

-----------------------------------------------------------------------------
(* Python values *)

None == <<>>
Some(v) == <<v>>

Return(v) == [ok |-> TRUE, value |-> v]
Raise(e) == [ok |-> FALSE, exc |-> e]

\* `if x:` for x a str or None
TruthyText(x) == x # None /\ Len(x[1]) > 0
\* `if x:` for x a date string or None (no modelled date is the empty string)
TruthyDate(x) == x # None
\* `if x:` for x a label or None
TruthyLabel(x) == x # None /\ x[1] # ""

Min2(a, b) == IF a <= b THEN a ELSE b

-----------------------------------------------------------------------------
(* SQL text matching: ILIKE with the wildcards % and _ *)

Lower(ch) == CASE ch = "A" -> "a" [] ch = "B" -> "b" [] ch = "M" -> "m" [] OTHER -> ch

LowerStr(s) == [i \in 1..Len(s) |-> Lower(s[i])]

RECURSIVE Like(_, _)
Like(s, pat) ==
    IF pat = <<>> THEN s = <<>>
    ELSE IF Head(pat) = "%"
         THEN Like(s, Tail(pat)) \/ (s # <<>> /\ Like(Tail(s), pat))
         ELSE /\ s # <<>>
              /\ (Head(pat) = "_" \/ Head(pat) = Head(s))
              /\ Like(Tail(s), Tail(pat))

ILike(s, pat) == Like(LowerStr(s), LowerStr(pat))

\* f"%{query}%"
Contains(text) == <<"%">> \o text \o <<"%">>

-----------------------------------------------------------------------------
(* Sorting rows: ascending by an integer key that is unique per row index *)

RECURSIVE SortByKey(_, _)
SortByKey(S, key) ==
    IF S = {} THEN <<>>
    ELSE LET m == CHOOSE i \in S : \A j \in S : key[i] <= key[j]
         IN <<m>> \o SortByKey(S \ {m}, key)

RECURSIVE SumOver(_, _)
SumOver(S, f) ==
    IF S = {} THEN 0
    ELSE LET i == CHOOSE j \in S : TRUE IN f[i] + SumOver(S \ {i}, f)

MinOf(S) == CHOOSE x \in S : \A y \in S : x <= y
MaxOf(S) == CHOOSE x \in S : \A y \in S : x >= y

-----------------------------------------------------------------------------
(* Number formatting: the f-string {limit} and the integer literal SQL reads back *)

Digit == <<"0", "1", "2", "3", "4", "5", "6", "7", "8", "9">>

RECURSIVE Str(_)
Str(n) ==
    IF n < 0 THEN <<"-">> \o Str(0 - n)
    ELSE IF n < 10 THEN <<Digit[n + 1]>>
    ELSE Str(n \div 10) \o <<Digit[(n % 10) + 1]>>

DigitValue(ch) == CHOOSE d \in 0..9 : Digit[d + 1] = ch

IsDigits(text) == text # <<>> /\ \A i \in 1..Len(text) : \E d \in 0..9 : Digit[d + 1] = text[i]

RECURSIVE ParseInt(_)
ParseInt(text) ==
    IF Len(text) = 1 THEN DigitValue(text[1])
    ELSE 10 * ParseInt(SubSeq(text, 1, Len(text) - 1)) + DigitValue(text[Len(text)])

-----------------------------------------------------------------------------
(* The store *)

REALIZATION == "Realizatsiya"       \* 'Реализация'
CORRECTION == "Korrektirovka"       \* 'Корректировка'

Dates == 1..3      \* the document dates of the sample rows

\* WHERE predicates, as the strings the operations append to `conditions`
TRUE_COND == "1=1"
P_QUERY == "(nomenclature_name ILIKE %s OR contractor_name ILIKE %s)"
P_SUPPLIER == "contractor_name ILIKE %s"
S_QUERY == "(nomenclature_name ILIKE %s OR client_name ILIKE %s)"
S_CLIENT == "client_name ILIKE %s"
S_DOCTYPE == "doc_type = %s"
DATE_GE == "doc_date >= %s"
DATE_LE == "doc_date <= %s"
IS_SALE == "doc_type = 'Realizatsiya'"
N_LEAF == "n.is_folder = false"
N_QUERY == "(n.name ILIKE %s OR n.article ILIKE %s)"
C_QUERY == "(name ILIKE %s OR inn ILIKE %s)"
P_NOMEN == "nomenclature_name ILIKE %s"

\* number of %s placeholders of a predicate
Placeholders(c) ==
    CASE c \in {P_QUERY, S_QUERY, N_QUERY, C_QUERY} -> 2
      [] c \in {P_SUPPLIER, S_CLIENT, S_DOCTYPE, DATE_GE, DATE_LE, P_NOMEN} -> 1
      [] OTHER -> 0

\* one predicate on one row, p its bound parameters
CondHolds(c, p, r) ==
    CASE c = TRUE_COND -> TRUE
      [] c = P_QUERY -> ILike(r.nomenclature_name, p[1]) \/ ILike(r.contractor_name, p[2])
      [] c = P_SUPPLIER -> ILike(r.contractor_name, p[1])
      [] c = S_QUERY -> ILike(r.nomenclature_name, p[1]) \/ ILike(r.client_name, p[2])
      [] c = S_CLIENT -> ILike(r.client_name, p[1])
      [] c = S_DOCTYPE -> r.doc_type = p[1]
      [] c = DATE_GE -> r.doc_date >= p[1]
      [] c = DATE_LE -> r.doc_date <= p[1]
      [] c = IS_SALE -> r.doc_type = REALIZATION
      [] c = N_LEAF -> r.is_folder = FALSE
      [] c = N_QUERY -> ILike(r.name, p[1]) \/ ILike(r.article, p[2])
      [] c = C_QUERY -> ILike(r.name, p[1]) \/ ILike(r.inn, p[2])
      [] c = P_NOMEN -> ILike(r.nomenclature_name, p[1])

\* ' AND '.join(conditions), with the parameters bound in order
RECURSIVE Where(_, _, _)
Where(conditions, params, r) ==
    IF conditions = <<>> THEN TRUE
    ELSE LET n == Placeholders(Head(conditions))
         IN /\ CondHolds(Head(conditions), SubSeq(params, 1, n), r)
            /\ Where(Tail(conditions), SubSeq(params, n + 1, Len(params)), r)

Matching(table, sql, params) == {i \in 1..Len(table) : Where(sql.where, params, table[i])}

\* LIMIT n: Postgres rejects anything but a non-negative integer
LimitOk(sql) == IsDigits(sql.limit)

Take(rows, n) == SubSeq(rows, 1, Min2(n, Len(rows)))

-----------------------------------------------------------------------------
(* Query execution.  db = [tables, fail, scan]: the tables, the ordinals of   *)
(* the queries of this operation on which the connection fails, and the order *)
(* in which the executor meets the rows (it decides ties of ORDER BY).        *)

\* the position of text s in the ordering of ORDER BY name (byte order, width 2)
CharOrd(ch) == CASE ch = "a" -> 4 [] ch = "b" -> 5 [] ch = "m" -> 6
                 [] ch = "A" -> 1 [] ch = "B" -> 2 [] ch = "M" -> 3 [] OTHER -> 7
StrKey(s) == (IF Len(s) >= 1 THEN 8 * CharOrd(s[1]) ELSE 0) + (IF Len(s) >= 2 THEN CharOrd(s[2]) ELSE 0)

\* a date parameter that is no date ('abc') is modelled as day 0
RECURSIVE BadParam(_, _)
BadParam(conditions, params) ==
    IF conditions = <<>> THEN FALSE
    ELSE LET n == Placeholders(Head(conditions))
         IN \/ (Head(conditions) \in {DATE_GE, DATE_LE} /\ params[1] < 1)
            \/ BadParam(Tail(conditions), SubSeq(params, n + 1, Len(params)))

SqlError(sql, params) ==
    \/ ("limit" \in DOMAIN sql /\ ~LimitOk(sql))
    \/ BadParam(sql.where, params)

Project(rows, idx) == [k \in 1..Len(idx) |-> rows[idx[k]]]

\* SELECT of some columns
Columns(rows, cols) == [k \in 1..Len(rows) |-> [c \in cols |-> rows[k][c]]]

\* rows of S in the order given by key, ties decided by db.scan
Ordered(S, key, db) ==
    SortByKey(S, [i \in S |-> key[i] * (MaxRecords + 1) + db.scan[i]])

PurchaseStatsRow(t, S) ==
    [total_records |-> Cardinality(S),
     suppliers |-> Cardinality({t[i].contractor_name : i \in S}),
     products |-> Cardinality({t[i].nomenclature_name : i \in S}),
     total_sum |-> SumOver(S, [i \in S |-> t[i].sum_total]),
     min_date |-> IF S = {} THEN None ELSE Some(MinOf({t[i].doc_date : i \in S})),
     max_date |-> IF S = {} THEN None ELSE Some(MaxOf({t[i].doc_date : i \in S}))]

SalesStatsRow(t, S) ==
    [total_records |-> Cardinality(S),
     clients |-> Cardinality({t[i].client_name : i \in S}),
     sales_sum |-> SumOver(S, [i \in S |-> IF t[i].doc_type = REALIZATION THEN t[i].sum_with_vat ELSE 0]),
     corrections_sum |-> SumOver(S, [i \in S |-> IF t[i].doc_type = CORRECTION THEN t[i].sum_with_vat ELSE 0])]

\* GROUP BY column: one row per value, ORDER BY total_sum DESC
GroupRows(t, S, column, db, limit) ==
    LET names == {t[i][column] : i \in S}
        members(n) == {i \in S : t[i][column] = n}
        first(n) == CHOOSE i \in members(n) : \A j \in members(n) : db.scan[i] <= db.scan[j]
        reps == {first(n) : n \in names}
        total == [i \in reps |-> SumOver(members(t[i][column]), [j \in S |-> t[j].sum_with_vat])]
        idx == Ordered(reps, [i \in reps |-> 0 - total[i]], db)
        row(i) == IF column = "client_name"
                  THEN [client_name |-> t[i].client_name,
                        total_sum |-> total[i],
                        orders_count |-> Cardinality({t[j].doc_number : j \in members(t[i].client_name)})]
                  ELSE [nomenclature_name |-> t[i].nomenclature_name,
                        total_qty |-> SumOver(members(t[i].nomenclature_name), [j \in S |-> t[j].quantity]),
                        total_sum |-> total[i]]
    IN Take([k \in 1..Len(idx) |-> row(idx[k])], limit)

RunSql(sql, params, db) ==
    LET p == db.tables.purchase_prices
        s == db.tables.sales
        n == db.tables.nomenclature
        c == db.tables.clients
    IN CASE sql.stmt = "purchase_rows" ->
              LET S == Matching(p, sql, params)
              IN Take(Project(p, Ordered(S, [i \in S |-> 0 - p[i].doc_date], db)), ParseInt(sql.limit))
         [] sql.stmt = "purchase_stats" -> <<PurchaseStatsRow(p, Matching(p, sql, params))>>
         [] sql.stmt = "sales_rows" ->
              LET S == Matching(s, sql, params)
              IN Take(Project(s, Ordered(S, [i \in S |-> 0 - s[i].doc_date], db)), ParseInt(sql.limit))
         [] sql.stmt = "sales_stats" -> <<SalesStatsRow(s, Matching(s, sql, params))>>
         [] sql.stmt = "nomenclature_rows" ->
              LET S == Matching(n, sql, params)
              IN Take(Columns(Project(n, Ordered(S, [i \in S |-> StrKey(n[i].name)], db)),
                              {"name", "article", "code", "type_name"}),
                      ParseInt(sql.limit))
         [] sql.stmt = "clients_rows" ->
              LET S == Matching(c, sql, params)
              IN Take(Project(c, Ordered(S, [i \in S |-> StrKey(c[i].name)], db)), ParseInt(sql.limit))
         [] sql.stmt = "price_rows" ->
              LET S == Matching(p, sql, params)
              IN Columns(Project(p, Ordered(S, [i \in S |-> p[i].doc_date], db)),
                         {"doc_date", "contractor_name", "price", "quantity"})
         [] sql.stmt = "top_clients" ->
              GroupRows(s, Matching(s, sql, params), "client_name", db, ParseInt(sql.limit))
         [] sql.stmt = "top_products" ->
              GroupRows(s, Matching(s, sql, params), "nomenclature_name", db, ParseInt(sql.limit))
         [] sql.stmt = "summary_purchases" ->
              LET S == 1..Len(p)
              IN <<[cnt |-> Len(p), total |-> SumOver(S, [i \in S |-> p[i].sum_total]),
                    min_date |-> IF S = {} THEN None ELSE Some(MinOf({p[i].doc_date : i \in S})),
                    max_date |-> IF S = {} THEN None ELSE Some(MaxOf({p[i].doc_date : i \in S}))]>>
         [] sql.stmt = "summary_sales" ->
              LET S == 1..Len(s)
                  st == SalesStatsRow(s, S)
              IN <<[cnt |-> Len(s), sales_total |-> st.sales_sum, corr_total |-> st.corrections_sum,
                    min_date |-> IF S = {} THEN None ELSE Some(MinOf({s[i].doc_date : i \in S})),
                    max_date |-> IF S = {} THEN None ELSE Some(MaxOf({s[i].doc_date : i \in S}))]>>
         [] sql.stmt = "summary_nomenclature" ->
              <<[cnt |-> Cardinality({i \in 1..Len(n) : n[i].is_folder = FALSE})]>>
         [] sql.stmt = "summary_clients" -> <<[cnt |-> Len(c)]>>

\* execute_query: the rows, or an empty DataFrame when the query fails
execute_query(sql, params, db, k) ==
    IF k \in db.fail \/ SqlError(sql, params) THEN <<>> ELSE RunSql(sql, params, db)

-----------------------------------------------------------------------------
(* The data operations.  a is the record of the bound parameters. *)

EmptyDict == <<>>

NOT_FOUND == "Dannye ne naydeny"    \* 'Данные не найдены'

\* df.to_dict('records') if not df.empty else []
Records(df) == IF df # <<>> THEN df ELSE <<>>

\* stats_df.iloc[0].to_dict() if not stats_df.empty else {}
StatsDict(stats_df) == IF stats_df # <<>> THEN stats_df[1] ELSE EmptyDict

\* the envelope of the two directory searches
Directory(type, df) == Return([type |-> type, data |-> Records(df), total_found |-> Len(df)])

\* mutant: the upper end of the range is appended under the test of the lower one
DateFilters_wrong_test(a) ==
    [conditions |-> (IF TruthyDate(a.date_from) THEN <<DATE_GE>> ELSE <<>>)
                    \o (IF TruthyDate(a.date_from) /\ TruthyDate(a.date_to) THEN <<DATE_LE>> ELSE <<>>),
     params |-> (IF TruthyDate(a.date_from) THEN <<a.date_from[1]>> ELSE <<>>)
                \o (IF TruthyDate(a.date_from) /\ TruthyDate(a.date_to) THEN <<a.date_to[1]>> ELSE <<>>)]

DateFilters(a) ==
    [conditions |-> (IF TruthyDate(a.date_from) THEN <<DATE_GE>> ELSE <<>>)
                    \o (IF TruthyDate(a.date_to) THEN <<DATE_LE>> ELSE <<>>),
     params |-> (IF TruthyDate(a.date_from) THEN <<a.date_from[1]>> ELSE <<>>)
                \o (IF TruthyDate(a.date_to) THEN <<a.date_to[1]>> ELSE <<>>)]

PurchaseFilters(a) ==
    [conditions |-> <<TRUE_COND>>
                    \o (IF TruthyText(a.query) THEN <<P_QUERY>> ELSE <<>>)
                    \o (IF TruthyText(a.supplier) THEN <<P_SUPPLIER>> ELSE <<>>)
                    \o DateFilters(a).conditions,
     params |-> (IF TruthyText(a.query) THEN <<Contains(a.query[1]), Contains(a.query[1])>> ELSE <<>>)
                \o (IF TruthyText(a.supplier) THEN <<Contains(a.supplier[1])>> ELSE <<>>)
                \o DateFilters(a).params]

PurchaseSql(a) ==
    [stmt |-> "purchase_rows", where |-> PurchaseFilters(a).conditions, limit |-> Str(a.limit)]

\* mutant: the statistics are computed from the rows returned
search_purchases_page_stats(a, db) ==
    LET f == PurchaseFilters(a)
        sql == PurchaseSql(a)
        df == execute_query(sql, f.params, db, 1)
        S == 1..Len(df)
    IN Return([type |-> "purchases", data |-> Records(df),
               stats |-> PurchaseStatsRow(df, S), query_used |-> sql])

search_purchases(a, db) ==
    LET f == PurchaseFilters(a)
        sql == PurchaseSql(a)
        df == execute_query(sql, f.params, db, 1)
        stats_sql == [stmt |-> "purchase_stats", where |-> f.conditions]
        stats_df == execute_query(stats_sql, f.params, db, 2)
        stats == StatsDict(stats_df)
    IN Return([type |-> "purchases", data |-> Records(df), stats |-> stats, query_used |-> sql])

SalesFilters(a) ==
    [conditions |-> <<TRUE_COND>>
                    \o (IF TruthyText(a.query) THEN <<S_QUERY>> ELSE <<>>)
                    \o (IF TruthyText(a.client) THEN <<S_CLIENT>> ELSE <<>>)
                    \o (IF TruthyLabel(a.doc_type) THEN <<S_DOCTYPE>> ELSE <<>>)
                    \o DateFilters(a).conditions,
     params |-> (IF TruthyText(a.query) THEN <<Contains(a.query[1]), Contains(a.query[1])>> ELSE <<>>)
                \o (IF TruthyText(a.client) THEN <<Contains(a.client[1])>> ELSE <<>>)
                \o (IF TruthyLabel(a.doc_type) THEN <<a.doc_type[1]>> ELSE <<>>)
                \o DateFilters(a).params]

SalesSql(a) ==
    [stmt |-> "sales_rows", where |-> SalesFilters(a).conditions, limit |-> Str(a.limit)]

search_sales(a, db) ==
    LET f == SalesFilters(a)
        df == execute_query(SalesSql(a), f.params, db, 1)
        stats_sql == [stmt |-> "sales_stats", where |-> f.conditions]
        stats_df == execute_query(stats_sql, f.params, db, 2)
        stats == StatsDict(stats_df)
    IN Return([type |-> "sales", data |-> Records(df), stats |-> stats])

NomenclatureSql(a) ==
    [stmt |-> "nomenclature_rows",
     where |-> <<N_LEAF>> \o (IF TruthyText(a.query) THEN <<N_QUERY>> ELSE <<>>),
     limit |-> Str(a.limit)]

TextParams(a) == IF TruthyText(a.query) THEN <<Contains(a.query[1]), Contains(a.query[1])>> ELSE <<>>

search_nomenclature(a, db) ==
    Directory("nomenclature", execute_query(NomenclatureSql(a), TextParams(a), db, 1))

ClientsSql(a) ==
    [stmt |-> "clients_rows",
     where |-> <<TRUE_COND>> \o (IF TruthyText(a.query) THEN <<C_QUERY>> ELSE <<>>),
     limit |-> Str(a.limit)]

search_clients(a, db) ==
    Directory("clients", execute_query(ClientsSql(a), TextParams(a), db, 1))

PriceSql == [stmt |-> "price_rows", where |-> <<P_NOMEN>>]

\* round(x, 1) of the percentage (last - first) / first * 100, in tenths of a
\* percent.  read_sql hands the prices over as floats, so a first price of zero
\* does not raise: the quotient is an infinity, or nan when last is zero too.
PctTenths(first, last) ==
    IF first = 0
    THEN [finite |-> FALSE, repr |-> IF last = 0 THEN "nan" ELSE IF last > 0 THEN "inf" ELSE "-inf"]
    ELSE LET num == (last - first) * 1000
             q == num \div first
             r == num % first
         IN [finite |-> TRUE,
             tenths |-> IF 2 * r > first \/ (2 * r = first /\ q % 2 = 1) THEN q + 1 ELSE q]

PriceStats(df) ==
    LET prices == {df[i].price : i \in 1..Len(df)}
    IN [min_price |-> MinOf(prices),
        max_price |-> MaxOf(prices),
        avg_price |-> [sum |-> SumOver(1..Len(df), [i \in 1..Len(df) |-> df[i].price]), count |-> Len(df)],
        first_price |-> df[1].price,
        last_price |-> df[Len(df)].price,
        price_change_pct |-> PctTenths(df[1].price, df[Len(df)].price)]

\* mutant: no rows are answered with a statistics block of zeros
Dynamics_zero_filled(nomenclature, df) ==
    IF df = <<>>
    THEN Return([type |-> "price_dynamics", nomenclature |-> nomenclature, data |-> <<>>,
                 stats |-> [min_price |-> 0, max_price |-> 0, avg_price |-> [sum |-> 0, count |-> 0],
                            first_price |-> 0, last_price |-> 0,
                            price_change_pct |-> [finite |-> TRUE, tenths |-> 0]]])
    ELSE Return([type |-> "price_dynamics", nomenclature |-> nomenclature,
                 data |-> df, stats |-> PriceStats(df)])

\* the two returns of get_price_dynamics, by df.empty
Dynamics(nomenclature, df) ==
    IF df = <<>>
    THEN Return([type |-> "price_dynamics", data |-> <<>>, message |-> NOT_FOUND])
    ELSE Return([type |-> "price_dynamics", nomenclature |-> nomenclature,
                 data |-> df, stats |-> PriceStats(df)])

get_price_dynamics(a, db) ==
    Dynamics(a.nomenclature, execute_query(PriceSql, <<Contains(a.nomenclature)>>, db, 1))

\* mutant: the leaderboards count the documents of every type
TopFilters_every_doc_type(a) ==
    [conditions |-> <<TRUE_COND>> \o DateFilters(a).conditions, params |-> DateFilters(a).params]

TopFilters(a) ==
    [conditions |-> <<IS_SALE>> \o DateFilters(a).conditions, params |-> DateFilters(a).params]

TopClientsSql(a) == [stmt |-> "top_clients", where |-> TopFilters(a).conditions, limit |-> Str(a.limit)]

get_top_clients(a, db) ==
    LET df == execute_query(TopClientsSql(a), TopFilters(a).params, db, 1)
    IN Return([type |-> "top_clients", data |-> Records(df)])

TopProductsSql(a) == [stmt |-> "top_products", where |-> TopFilters(a).conditions, limit |-> Str(a.limit)]

get_top_products(a, db) ==
    LET df == execute_query(TopProductsSql(a), TopFilters(a).params, db, 1)
    IN Return([type |-> "top_products", data |-> Records(df)])

\* str(e) of the IndexError pandas raises: the parts of the message
INDEX_ERROR == <<"single positional indexer is out-of-bounds">>

\* the return statement: every result is read at .iloc[0]
Summary(purchases, sales, nom_count, clients_count) ==
       IF purchases = <<>> \/ sales = <<>> \/ nom_count = <<>> \/ clients_count = <<>>
       THEN Raise(INDEX_ERROR)      \* .iloc[0] of an empty DataFrame
       ELSE Return([type |-> "summary",
                    purchases |-> [records |-> purchases[1].cnt,
                                   total_sum |-> purchases[1].total,
                                   period |-> <<purchases[1].min_date, purchases[1].max_date>>],
                    sales |-> [records |-> sales[1].cnt,
                               sales_sum |-> sales[1].sales_total,
                               corrections_sum |-> sales[1].corr_total,
                               period |-> <<sales[1].min_date, sales[1].max_date>>],
                    nomenclature_count |-> nom_count[1].cnt,
                    clients_count |-> clients_count[1].cnt])

get_summary_stats(db) ==
    Summary(execute_query([stmt |-> "summary_purchases", where |-> <<>>], <<>>, db, 1),
            execute_query([stmt |-> "summary_sales", where |-> <<>>], <<>>, db, 2),
            execute_query([stmt |-> "summary_nomenclature", where |-> <<>>], <<>>, db, 3),
            execute_query([stmt |-> "summary_clients", where |-> <<>>], <<>>, db, 4))

-----------------------------------------------------------------------------
(* The tool dispatcher *)

ToolNames ==
    {"search_purchases", "search_sales", "search_nomenclature", "search_clients",
     "get_price_dynamics", "get_top_clients", "get_top_products", "get_summary_stats"}

\* TOOLS: the input schema declared for each tool
TOOLS(name) ==
    CASE name = "search_purchases" ->
            [properties |-> {"query", "supplier", "date_from", "date_to", "limit"}, required |-> {}]
      [] name = "search_sales" ->
            [properties |-> {"query", "client", "doc_type", "date_from", "date_to", "limit"}, required |-> {}]
      [] name \in {"search_nomenclature", "search_clients"} ->
            [properties |-> {"query", "limit"}, required |-> {}]
      [] name = "get_price_dynamics" -> [properties |-> {"nomenclature"}, required |-> {"nomenclature"}]
      [] name \in {"get_top_clients", "get_top_products"} ->
            [properties |-> {"date_from", "date_to", "limit"}, required |-> {}]
      [] name = "get_summary_stats" -> [properties |-> {}, required |-> {}]

\* the parameters of each operation with their defaults (nomenclature has none)
Defaults(name) ==
    CASE name = "search_purchases" ->
            [query |-> None, supplier |-> None, date_from |-> None, date_to |-> None, limit |-> 20]
      [] name = "search_sales" ->
            [query |-> None, client |-> None, doc_type |-> None, date_from |-> None,
             date_to |-> None, limit |-> 20]
      [] name \in {"search_nomenclature", "search_clients"} -> [query |-> None, limit |-> 30]
      [] name \in {"get_top_clients", "get_top_products"} ->
            [date_from |-> None, date_to |-> None, limit |-> 10]
      [] OTHER -> EmptyDict

Required(name) == IF name = "get_price_dynamics" THEN {"nomenclature"} ELSE {}

\* str(e) of the TypeError Python raises for a keyword the function does not
\* take, and for a parameter without a default that was not given
UnexpectedKeyword(name, key) == <<name, "() got an unexpected keyword argument '", key, "'">>
MissingArgument(name, key) == <<name, "() missing 1 required positional argument: '", key, "'">>

\* tool_input is a dict: its entries <<key, value>> in the order of insertion
Keys(d) == {d[i][1] : i \in 1..Len(d)}
Get(d, k) == d[CHOOSE i \in 1..Len(d) : d[i][1] = k][2]

\* the first key of the dict that is no parameter of the function
FirstKey(tool_input, parameters) ==
    tool_input[CHOOSE i \in 1..Len(tool_input) :
                  /\ tool_input[i][1] \notin parameters
                  /\ \A j \in 1..(i - 1) : tool_input[j][1] \in parameters][1]

\* calling f with the entries of tool_input as keywords: Python binds them or
\* raises TypeError, for the first keyword it cannot place before it looks for
\* the parameters left without a value
Bind(name, tool_input) ==
    IF ~(Keys(tool_input) \subseteq (DOMAIN Defaults(name) \cup Required(name)))
    THEN Raise(UnexpectedKeyword(name, FirstKey(tool_input, DOMAIN Defaults(name) \cup Required(name))))
    ELSE IF ~(Required(name) \subseteq Keys(tool_input))
    THEN Raise(MissingArgument(name, CHOOSE key \in Required(name) \ Keys(tool_input) : TRUE))
    ELSE Return([k \in DOMAIN Defaults(name) \cup Required(name) |->
                    IF k \in Keys(tool_input) THEN Get(tool_input, k) ELSE Defaults(name)[k]])

\* {"error": f"Неизвестный инструмент: {tool_name}"}, the label transliterated
\* letter for letter
UnknownTool(tool_name) == [error |-> <<"Neizvestnyy instrument: ", tool_name>>]

\* the body of the try block: the value of `result`, or the exception raised
Invoke(tool_name, tool_input, db) ==
    LET b == Bind(tool_name, tool_input)
    IN CASE tool_name = "get_summary_stats" -> get_summary_stats(db)
         [] tool_name \notin ToolNames -> Return(UnknownTool(tool_name))
         [] ~b.ok -> b
         [] tool_name = "search_purchases" -> search_purchases(b.value, db)
         [] tool_name = "search_sales" -> search_sales(b.value, db)
         [] tool_name = "search_nomenclature" -> search_nomenclature(b.value, db)
         [] tool_name = "search_clients" -> search_clients(b.value, db)
         [] tool_name = "get_price_dynamics" -> get_price_dynamics(b.value, db)
         [] tool_name = "get_top_clients" -> get_top_clients(b.value, db)
         [] tool_name = "get_top_products" -> get_top_products(b.value, db)

\* execute_query, lines 51-52: a query the operation sends fails (the connection
\* on that query, or the statement as Postgres reads it) and st.error is called
DbErrorShown(tool_name, tool_input, db) ==
    LET b == Bind(tool_name, tool_input)
        failed(sql, params, k) == k \in db.fail \/ SqlError(sql, params)
    IN CASE tool_name = "get_summary_stats" -> db.fail \cap (1..4) # {}
         [] tool_name \notin ToolNames -> FALSE
         [] ~b.ok -> FALSE
         [] tool_name = "search_purchases" ->
              \/ failed(PurchaseSql(b.value), PurchaseFilters(b.value).params, 1)
              \/ failed([stmt |-> "purchase_stats", where |-> PurchaseFilters(b.value).conditions],
                        PurchaseFilters(b.value).params, 2)
         [] tool_name = "search_sales" ->
              \/ failed(SalesSql(b.value), SalesFilters(b.value).params, 1)
              \/ failed([stmt |-> "sales_stats", where |-> SalesFilters(b.value).conditions],
                        SalesFilters(b.value).params, 2)
         [] tool_name = "search_nomenclature" -> failed(NomenclatureSql(b.value), TextParams(b.value), 1)
         [] tool_name = "search_clients" -> failed(ClientsSql(b.value), TextParams(b.value), 1)
         [] tool_name = "get_price_dynamics" -> failed(PriceSql, <<Contains(b.value.nomenclature)>>, 1)
         [] tool_name = "get_top_clients" -> failed(TopClientsSql(b.value), TopFilters(b.value).params, 1)
         [] tool_name = "get_top_products" -> failed(TopProductsSql(b.value), TopFilters(b.value).params, 1)

\* json.dumps(v, ensure_ascii=False, default=str).  The text is identified by
\* the value it encodes; its length is counted as json.dumps writes it: keys in
\* quotes followed by ": ", items separated by ", ", numbers of the store as
\* floats (1.0) except counts and document numbers, dates as 'YYYY-MM-DD'.
\* The counts of the sales statistics are floats too: .iloc[0] makes one Series
\* of the row, and a row of integers and floats has the dtype float64.
IntLen(n) == IF n < 0 THEN 1 + Len(Str(0 - n)) ELSE Len(Str(n))
FloatLen(n) == IntLen(n) + 2
TextLen(s) == Len(s) + 2
OptDateLen(d) == IF d = None THEN 4 ELSE 12         \* null, or the date in quotes

\* str(float) of a mean: whole, a half, or a fraction written out in full
AvgLen(avg) ==
    IF avg.sum % avg.count = 0 THEN FloatLen(avg.sum \div avg.count)
    ELSE IF (2 * avg.sum) % avg.count = 0 THEN IntLen(avg.sum \div avg.count) + 2
    ELSE IntLen(avg.sum \div avg.count) + 17

\* the rounded percentage, or NaN, Infinity, -Infinity
PctLen(pct) ==
    IF pct.finite
    THEN (IF pct.tenths < 0 THEN 1 + IntLen((0 - pct.tenths) \div 10) ELSE IntLen(pct.tenths \div 10)) + 2
    ELSE (IF pct.repr = "nan" THEN 3 ELSE IF pct.repr = "inf" THEN 8 ELSE 9)

\* f"{min_date} — {max_date}" in quotes, a missing date printed as None
PeriodLen(period) ==
    (IF period[1] = None THEN 4 ELSE 10) + 3 + (IF period[2] = None THEN 4 ELSE 10) + 2

CondLen(c) ==
    CASE c = TRUE_COND -> 3
      [] c = P_QUERY -> 56
      [] c = P_SUPPLIER -> 24
      [] c \in {DATE_GE, DATE_LE} -> 14
      [] OTHER -> 0

\* the text of the purchases query as json.dumps escapes it, in quotes: the statement, the
\* conditions joined by ' AND ', the digits of the limit
SqlLen(sql) ==
    219 + SumOver(1..Len(sql.where), [k \in 1..Len(sql.where) |-> CondLen(sql.where[k])])
        + 5 * (Len(sql.where) - 1) + Len(sql.limit)

KeyLen(k) ==
    CASE k \in {"inn"} -> 3
      [] k \in {"type", "data", "name", "code"} -> 4
      [] k \in {"stats", "error", "price", "sales"} -> 5
      [] k \in {"period"} -> 6
      [] k \in {"message", "article", "records", "clients"} -> 7
      [] k \in {"doc_date", "doc_type", "quantity", "min_date", "max_date", "products"} -> 8
      [] k \in {"sum_total", "type_name", "total_sum", "min_price", "max_price",
                "avg_price", "suppliers", "sales_sum", "total_qty", "purchases"} -> 9
      [] k \in {"doc_number", "query_used", "last_price"} -> 10
      [] k \in {"client_name", "total_found", "first_price"} -> 11
      [] k \in {"sum_with_vat", "orders_count", "nomenclature"} -> 12
      [] k \in {"total_records", "clients_count"} -> 13
      [] k \in {"contractor_name", "corrections_sum"} -> 15
      [] k \in {"price_change_pct"} -> 16
      [] k \in {"nomenclature_name"} -> 17
      [] k \in {"nomenclature_count"} -> 18

\* the row of sales statistics, every value of it a float
FloatRowLen(d) ==
    2 + SumOver(DOMAIN d, [k \in DOMAIN d |-> KeyLen(k) + 4 + FloatLen(d[k])])
      + 2 * (Cardinality(DOMAIN d) - 1)

TypeLen(type) ==
    CASE type = "sales" -> 7
      [] type \in {"clients", "summary"} -> 9
      [] type = "purchases" -> 11
      [] type = "top_clients" -> 13
      [] type \in {"nomenclature", "top_products"} -> 14
      [] type = "price_dynamics" -> 16

RECURSIVE DictLen(_), ListLen(_), ValueLen(_, _)

\* the text of the value x of key k
ValueLen(k, x) ==
    CASE k = "type" -> TypeLen(x)
      [] k = "data" -> ListLen(x)
      [] k = "stats" -> IF "corrections_sum" \in DOMAIN x THEN FloatRowLen(x) ELSE DictLen(x)
      [] k \in {"purchases", "sales"} -> DictLen(x)
      [] k = "query_used" -> SqlLen(x)
      [] k = "message" -> 19                        \* 'Данные не найдены'
      [] k = "error" -> SumOver(1..Len(x), [i \in 1..Len(x) |-> Len(x[i])]) + 2  \* the message in quotes
      [] k = "doc_date" -> 12
      [] k \in {"min_date", "max_date"} -> OptDateLen(x)
      [] k = "doc_type" -> IF x = REALIZATION THEN 12 ELSE 15
      [] k = "type_name" -> IF x = "Tovar" THEN 7 ELSE 8
      [] k \in {"doc_number", "total_records", "suppliers", "products", "clients", "orders_count",
                "records", "total_found", "nomenclature_count", "clients_count"} -> IntLen(x)
      [] k \in {"quantity", "price", "sum_total", "sum_with_vat", "total_sum", "sales_sum",
                "corrections_sum", "total_qty", "min_price", "max_price", "first_price",
                "last_price"} -> FloatLen(x)
      [] k \in {"contractor_name", "nomenclature_name", "client_name", "name", "article", "code",
                "inn", "nomenclature"} -> TextLen(x)
      [] k = "avg_price" -> AvgLen(x)
      [] k = "price_change_pct" -> PctLen(x)
      [] k = "period" -> PeriodLen(x)

DictLen(d) ==
    IF DOMAIN d = {} THEN 2
    ELSE 2 + SumOver(DOMAIN d, [k \in DOMAIN d |-> KeyLen(k) + 4 + ValueLen(k, d[k])])
           + 2 * (Cardinality(DOMAIN d) - 1)

ListLen(rows) ==
    IF rows = <<>> THEN 2
    ELSE 2 + SumOver(1..Len(rows), [k \in 1..Len(rows) |-> DictLen(rows[k])])
           + 2 * (Len(rows) - 1)

JsonLen(v) == DictLen(v)

dumps(v) == [json |-> v, len |-> JsonLen(v), cut |-> FALSE]

\* the return of the try block, or the return of the except clause
Caught(r) == IF r.ok THEN dumps(r.value) ELSE dumps([error |-> r.exc])

execute_tool(tool_name, tool_input, db) == Caught(Invoke(tool_name, tool_input, db))

-----------------------------------------------------------------------------
(* Bounded stores and arguments *)

Names == {<<"A", "b">>, <<"m">>}                \* counterparties: suppliers and clients
ProductOf(d) == IF d % 2 = 1 THEN <<"b", "a">> ELSE <<"M", "a">>

\* the price of the day: 1, 0, 2 on days 1, 2, 3 (a zero price is a price)
PriceOn(d) == (2 * d + 2) % 3

PurchaseRows ==
    {[doc_date |-> d, doc_number |-> d, contractor_name |-> n, nomenclature_name |-> ProductOf(d),
      quantity |-> Len(n), price |-> PriceOn(d), sum_total |-> Len(n) * PriceOn(d)]
        : d \in Dates, n \in Names}

SalesRows ==
    {[doc_type |-> t, doc_date |-> d, doc_number |-> d, client_name |-> n,
      nomenclature_name |-> ProductOf(d), quantity |-> Len(n), price |-> d,
      sum_with_vat |-> IF t = REALIZATION THEN Len(n) * d ELSE 0 - d]
        : t \in {REALIZATION, CORRECTION}, d \in Dates, n \in Names}

NomenclatureRows ==
    {[name |-> <<"b", "a">>, article |-> <<"a">>, code |-> <<"1">>, type_name |-> "Tovar", is_folder |-> FALSE],
     [name |-> <<"M">>, article |-> <<"m">>, code |-> <<"2">>, type_name |-> "Gruppa", is_folder |-> TRUE]}

ClientRows == {[name |-> <<"A", "b">>, inn |-> <<"7">>]}

\* The order of the rows in a table carries no meaning (the executor's order is
\* db.scan), so a table is listed once, its rows in the order of Rank.
Rank(r) ==
    IF "is_folder" \in DOMAIN r THEN (IF r.is_folder THEN 1 ELSE 0)
    ELSE IF "inn" \in DOMAIN r THEN 0
    ELSE IF "doc_type" \in DOMAIN r
         THEN 4 * r.doc_date + 2 * (Len(r.client_name) - 1) + (IF r.doc_type = REALIZATION THEN 0 ELSE 1)
         ELSE 2 * r.doc_date + (Len(r.contractor_name) - 1)

Tables(rows, n) == {t \in [1..n -> rows] : \A i \in 1..n, j \in 1..n : i < j => Rank(t[i]) <= Rank(t[j])}

\* every store of at most MaxRecords rows
Stores ==
    UNION {
        {[purchase_prices |-> p, sales |-> s, nomenclature |-> n, clients |-> c] :
            p \in Tables(PurchaseRows, l[1]), s \in Tables(SalesRows, l[2]),
            n \in Tables(NomenclatureRows, l[3]), c \in Tables(ClientRows, l[4])}
        : l \in {x \in [1..4 -> 0..MaxRecords] : x[1] + x[2] + x[3] + x[4] <= MaxRecords} }

Scans == Permutations(1..MaxRecords)

Healthy(scan) == [tables |-> store, fail |-> {}, scan |-> scan]

TextArgs == {None, Some(<<"a">>)}
DateFromArgs == {None, Some(2)}
DateToArgs == {None, Some(2)}
LimitArgs == {20, 1}                            \* the default and a small limit

PurchaseArgs ==
    [query : TextArgs, supplier : {None, Some(<<"B">>)},
     date_from : DateFromArgs, date_to : DateToArgs, limit : LimitArgs]

TopArgs == [date_from : DateFromArgs, date_to : DateToArgs, limit : {10, 1}]

NomenclatureArgs == {<<"a">>, <<"B">>, <<"z">>}     \* in every name, in some, in none

SalesArgs ==
    [query : TextArgs, client : {None, Some(<<"m">>)}, doc_type : {None, Some(REALIZATION), Some(CORRECTION)},
     date_from : DateFromArgs, date_to : DateToArgs, limit : LimitArgs]

UNKNOWN_TOOL == "drop_tables"

NoCall == [op |-> "none"]
NoResult == [ok |-> TRUE, value |-> [type |-> "none"]]
NoOutput == <<>>

-----------------------------------------------------------------------------
(* The session and the tool-use loop *)

PREVIEW_CHARS == 500

\* content of a turn: a text, the blocks of a response, or tool results
Text(t) == [text |-> t]
Blocks(b) == [blocks |-> b]
Results(r) == [results |-> r]

Turn(role, content) == [role |-> role, content |-> content]

NoResponse == [stop_reason |-> "none", content |-> <<>>]

\* the state of a session with no input being handled
AgentIdle ==
    /\ session_messages = <<>>
    /\ tools_log = <<>>
    /\ pc = "idle"
    /\ user_input = <<>>
    /\ chat_history = <<>>
    /\ messages = <<>>
    /\ tools_used = <<>>
    /\ response = NoResponse
    /\ tool_calls = <<>>
    /\ tool_results = <<>>
    /\ final_response = <<>>
    /\ before = <<>>
    /\ dispatched = <<>>
    /\ rounds = 0
    /\ turns = 0
    /\ outcome = "none"

\* what the provider may answer: blocks of text and of tool_use, in any mix, under
\* any stop reason; the ids of the tool_use blocks are fresh
StopReasons == {"tool_use", "end_turn", "max_tokens"}
BlockKinds == {"text", "search_purchases", UNKNOWN_TOOL}

Block(kind, id) ==
    IF kind = "text" THEN [type |-> "text", text |-> <<"t">>]
    ELSE [type |-> "tool_use", id |-> id, name |-> kind, input |-> EmptyDict]

Contents(base) ==
    UNION {{[k \in 1..n |-> Block(shape[k], base + k)] : shape \in [1..n -> BlockKinds]} : n \in 0..MaxBlocks}

Responses(base) == [stop_reason : StopReasons, content : Contents(base)]

UserInputs == {<<"q">>}

\* [block for block in response.content if block.type == "tool_use"]
RECURSIVE ToolUseBlocks(_)
ToolUseBlocks(content) ==
    IF content = <<>> THEN <<>>
    ELSE (IF Head(content).type = "tool_use" THEN <<Head(content)>> ELSE <<>>)
         \o ToolUseBlocks(Tail(content))

\* the concatenation of block.text over the blocks that have a text
RECURSIVE FinalText(_)
FinalText(content) ==
    IF content = <<>> THEN <<>>
    ELSE (IF "text" \in DOMAIN Head(content) THEN Head(content).text ELSE <<>>)
         \o FinalText(Tail(content))

\* tool_result[:500] + "..." if len(tool_result) > 500 else tool_result
Preview(tool_result) ==
    IF tool_result.len > PREVIEW_CHARS
    THEN [json |-> tool_result.json, len |-> PREVIEW_CHARS + 3, cut |-> TRUE]
    ELSE tool_result

AuditEntry(tool_call, tool_result) ==
    [name |-> tool_call.name, input |-> tool_call.input, output_preview |-> Preview(tool_result)]

\* mutant: every result is filed under the id of the first invocation
ToolResultBlock_first_id(tool_call, tool_result) ==
    [type |-> "tool_result", tool_use_id |-> tool_calls[1].id, content |-> tool_result]

ToolResultBlock(tool_call, tool_result) ==
    [type |-> "tool_result", tool_use_id |-> tool_call.id, content |-> tool_result]

\* f"... Oshibka: {str(e)}"
ErrorMessage(e) == <<"Oshibka: ", e>>

PROVIDER_ERROR == "APIError"

\* main, lines 651-663, and get_ai_response up to the loop: the input is appended
\* to the session and the call starts from a copy of the earlier turns
SubmitInput ==
    \E u \in UserInputs :
        /\ pc = "idle"
        /\ turns < MaxTurns
        /\ session_messages' = Append(session_messages, Turn("user", Text(u)))
        /\ user_input' = u
        /\ chat_history' = session_messages
        /\ messages' = Append(session_messages, Turn("user", Text(u)))
        /\ tools_used' = <<>>
        /\ before' = session_messages
        /\ pc' = "awaiting"
        /\ UNCHANGED <<tools_log, response, tool_calls, tool_results, final_response,
                       dispatched, rounds, turns, outcome>>
        /\ UNCHANGED dalVars

\* invocation rounds the current call has completed
CallRounds == (Len(messages) - Len(chat_history) - 1) \div 2

\* the model answers with stop_reason tool_use: the response joins the transcript
\* and its invocations are to be executed
ModelRequestsTools ==
    \E r \in Responses(Len(messages) * MaxBlocks) :
        /\ pc = "awaiting"
        /\ r.stop_reason = "tool_use"
        /\ rounds < MaxRounds
        /\ response' = r
        /\ tool_calls' = ToolUseBlocks(r.content)
        /\ messages' = Append(messages, Turn("assistant", Blocks(r.content)))
        /\ tool_results' = <<>>
        /\ pc' = "executing"
        /\ UNCHANGED <<session_messages, tools_log, user_input, chat_history, tools_used,
                       final_response, before, dispatched, rounds, turns, outcome>>
        /\ UNCHANGED dalVars

\* the queries each operation sends, by ordinal (none for a name that is no tool)
QueriesOf(name) ==
    CASE name \in {"search_purchases", "search_sales"} -> {1, 2}
      [] name = "get_summary_stats" -> 1..4
      [] name \in ToolNames -> {1}
      [] OTHER -> {}

\* one pass of the for loop: the next invocation is executed and recorded.  Each
\* of its queries succeeds or fails on its own.
ExecuteNext ==
    \E scan \in Scans :
        /\ pc = "executing"
        /\ Len(tool_results) < Len(tool_calls)
        /\ LET tool_call == tool_calls[Len(tool_results) + 1]
           IN \E fail \in SUBSET QueriesOf(tool_call.name) :
              \E tool_result \in {execute_tool(tool_call.name, tool_call.input,
                                               [tables |-> store, fail |-> fail, scan |-> scan])} :
                 /\ tools_used' = Append(tools_used, AuditEntry(tool_call, tool_result))
                 /\ tool_results' = Append(tool_results, ToolResultBlock(tool_call, tool_result))
                 /\ dispatched' = Append(dispatched, AuditEntry(tool_call, tool_result))
                 /\ UNCHANGED <<session_messages, tools_log, pc, user_input, chat_history, messages,
                                response, tool_calls, final_response, before, rounds, turns, outcome>>
                 /\ UNCHANGED dalVars

\* after the for loop: the results go back to the model as one user turn
FinishRound ==
    /\ pc = "executing"
    /\ Len(tool_results) = Len(tool_calls)
    /\ messages' = Append(messages, Turn("user", Results(tool_results)))
    /\ rounds' = rounds + 1
    /\ pc' = "awaiting"
    /\ UNCHANGED <<session_messages, tools_log, user_input, chat_history, tools_used, response,
                   tool_calls, tool_results, final_response, before, dispatched, turns, outcome>>
    /\ UNCHANGED dalVars

\* the model answers with another stop reason: get_ai_response returns the text
ModelAnswers ==
    \E r \in Responses(Len(messages) * MaxBlocks) :
        /\ pc = "awaiting"
        /\ r.stop_reason # "tool_use"
        /\ response' = r
        /\ final_response' = FinalText(r.content)
        /\ pc' = "answered"
        /\ UNCHANGED <<session_messages, tools_log, user_input, chat_history, messages, tools_used,
                       tool_calls, tool_results, before, dispatched, rounds, turns, outcome>>
        /\ UNCHANGED dalVars

\* Streamlit ends a script run at the next st call once a rerun has been asked
\* for (a widget pressed while the run is busy): the call raises RerunException,
\* which is no Exception and is caught nowhere.  What the session holds by then
\* stays; the locals of the run are gone.
RunEnds ==
    /\ pc' = "idle"
    /\ turns' = turns + 1
    /\ messages' = <<>> /\ tools_used' = <<>> /\ response' = NoResponse
    /\ tool_calls' = <<>> /\ tool_results' = <<>> /\ final_response' = <<>>
    /\ UNCHANGED <<session_messages, tools_log, user_input, chat_history, before, rounds>>
    /\ UNCHANGED dalVars

\* main, lines 654-659: the run ends at st.chat_message, st.markdown or st.spinner,
\* after the user's turn was appended and before get_ai_response is called
RerunAfterInput ==
    /\ pc = "awaiting"
    /\ Len(messages) = Len(chat_history) + 1
    /\ outcome' = "interrupted"
    /\ UNCHANGED dispatched
    /\ RunEnds

\* execute_query, line 52: execute_tool is called for the invocation (line 546),
\* a query of it fails and the run ends at the st.error of the except clause:
\* the call was made and returns nothing
RerunAtDbError ==
    /\ pc = "executing"
    /\ Len(tool_results) < Len(tool_calls)
    /\ \E fail \in SUBSET QueriesOf(tool_calls[Len(tool_results) + 1].name), scan \in Scans :
          DbErrorShown(tool_calls[Len(tool_results) + 1].name, tool_calls[Len(tool_results) + 1].input,
                       [tables |-> store, fail |-> fail, scan |-> scan])
    /\ dispatched' = Append(dispatched, [name |-> tool_calls[Len(tool_results) + 1].name,
                                         input |-> tool_calls[Len(tool_results) + 1].input,
                                         output_preview |-> NoOutput])
    /\ outcome' = "interrupted"
    /\ RunEnds

\* main, line 665: get_ai_response has returned and the run ends at
\* st.markdown(response), before anything is saved
RerunAtAnswer ==
    /\ pc = "answered"
    /\ outcome' = "interrupted"
    /\ UNCHANGED dispatched
    /\ RunEnds

\* main, lines 665-669: the answer is shown, then the answer and the audit
\* entries of the call are saved
SaveAnswer ==
    /\ pc = "answered"
    /\ session_messages' = Append(session_messages, Turn("assistant", Text(final_response)))
    /\ tools_log' = tools_log \o tools_used
    /\ turns' = turns + 1
    /\ outcome' = "answered"
    /\ pc' = "idle"
    /\ messages' = <<>> /\ tools_used' = <<>> /\ response' = NoResponse
    /\ tool_calls' = <<>> /\ tool_results' = <<>> /\ final_response' = <<>>
    /\ UNCHANGED <<user_input, chat_history, before, dispatched, rounds>>
    /\ UNCHANGED dalVars

\* client.messages.create raises and the run ends at st.error(error_msg), line
\* 673: the error is shown and the append of line 674 is never reached
ProviderFailsRerun ==
    /\ pc = "awaiting"
    /\ outcome' = "failed"
    /\ UNCHANGED dispatched
    /\ RunEnds

\* client.messages.create raises: main, lines 671-674, reports it as the answer
ProviderFails ==
    /\ pc = "awaiting"
    /\ session_messages' = Append(session_messages, Turn("assistant", Text(ErrorMessage(PROVIDER_ERROR))))
    /\ turns' = turns + 1
    /\ outcome' = "failed"
    /\ pc' = "idle"
    /\ messages' = <<>> /\ tools_used' = <<>> /\ response' = NoResponse
    /\ tool_calls' = <<>> /\ tool_results' = <<>> /\ final_response' = <<>>
    /\ UNCHANGED <<tools_log, user_input, chat_history, before, dispatched, rounds>>
    /\ UNCHANGED dalVars

\* the sidebar button: both lists of the session are emptied
ClearHistory ==
    /\ pc = "idle"
    /\ session_messages # <<>>
    /\ session_messages' = <<>>
    /\ tools_log' = <<>>
    /\ before' = <<>>
    /\ dispatched' = <<>>
    /\ rounds' = 0
    /\ turns' = 0
    /\ outcome' = "none"
    /\ UNCHANGED <<pc, user_input, chat_history, messages, tools_used, response, tool_calls,
                   tool_results, final_response>>
    /\ UNCHANGED dalVars

\* the store the session talks to: one purchase, one sale, the catalogue
SampleStore ==
    [purchase_prices |-> <<CHOOSE r \in PurchaseRows : r.doc_date = 2 /\ r.contractor_name = <<"m">> >>,
     sales |-> <<CHOOSE r \in SalesRows :
                    r.doc_date = 1 /\ r.client_name = <<"m">> /\ r.doc_type = REALIZATION>>,
     nomenclature |-> <<CHOOSE r \in NomenclatureRows : ~r.is_folder>>,
     clients |-> <<CHOOSE r \in ClientRows : TRUE>>]

Init ==
    /\ store = SampleStore
    /\ call = NoCall
    /\ result = NoResult
    /\ output = NoOutput
    /\ AgentIdle

Next ==
    \/ SubmitInput
    \/ ModelRequestsTools
    \/ ExecuteNext
    \/ FinishRound
    \/ ModelAnswers
    \/ SaveAnswer
    \/ ProviderFails
    \/ RerunAfterInput
    \/ RerunAtDbError
    \/ RerunAtAnswer
    \/ ProviderFailsRerun
    \/ ClearHistory

Spec == Init /\ [][Next]_vars

-----------------------------------------------------------------------------
(* SpecDAL: the data operations called on every bounded store *)

InitDAL ==
    /\ store \in Stores
    /\ call = NoCall
    /\ result = NoResult
    /\ output = NoOutput
    /\ AgentIdle

CallSearchPurchases ==
    \E a \in PurchaseArgs, scan \in Scans :
        /\ call = NoCall
        /\ call' = [op |-> "search_purchases", args |-> a, fail |-> {}]
        /\ result' = search_purchases(a, Healthy(scan))
        /\ UNCHANGED <<store, output>>
        /\ UNCHANGED agentVars

CallSearchSales ==
    \E a \in SalesArgs, scan \in Scans :
        /\ call = NoCall
        /\ call' = [op |-> "search_sales", args |-> a, fail |-> {}]
        /\ result' = search_sales(a, Healthy(scan))
        /\ UNCHANGED <<store, output>>
        /\ UNCHANGED agentVars

CallPriceDynamics ==
    \E x \in NomenclatureArgs, scan \in Scans :
        /\ call = NoCall
        /\ call' = [op |-> "get_price_dynamics", args |-> [nomenclature |-> x], fail |-> {}]
        /\ result' = get_price_dynamics([nomenclature |-> x], Healthy(scan))
        /\ UNCHANGED <<store, output>>
        /\ UNCHANGED agentVars

CallTopClients ==
    \E a \in TopArgs, scan \in Scans :
        /\ call = NoCall
        /\ call' = [op |-> "get_top_clients", args |-> a, fail |-> {}]
        /\ result' = get_top_clients(a, Healthy(scan))
        /\ UNCHANGED <<store, output>>
        /\ UNCHANGED agentVars

CallTopProducts ==
    \E a \in TopArgs, scan \in Scans :
        /\ call = NoCall
        /\ call' = [op |-> "get_top_products", args |-> a, fail |-> {}]
        /\ result' = get_top_products(a, Healthy(scan))
        /\ UNCHANGED <<store, output>>
        /\ UNCHANGED agentVars

NextDAL ==
    \/ CallSearchPurchases
    \/ CallSearchSales
    \/ CallPriceDynamics
    \/ CallTopClients
    \/ CallTopProducts

SpecDAL == InitDAL /\ [][NextDAL]_vars

-----------------------------------------------------------------------------
(* Reference semantics the claims are stated against (not taken from the code) *)

\* text q occurs in s, letters compared without case
Occurs(q, s) ==
    \E i \in 1..(Len(s) - Len(q) + 1) : LowerStr(SubSeq(s, i, i + Len(q) - 1)) = LowerStr(q)

Given(x) == x # None

\* the record r is selected by the filters of the call
Admits(c, r) ==
    LET a == c.args
        who == IF c.op = "search_purchases" THEN r.contractor_name ELSE r.client_name
        only == IF c.op = "search_purchases" THEN a.supplier ELSE a.client
    IN /\ Given(a.query) => Occurs(a.query[1], r.nomenclature_name) \/ Occurs(a.query[1], who)
       /\ Given(only) => Occurs(only[1], who)
       /\ (c.op = "search_sales" /\ Given(a.doc_type)) => r.doc_type = a.doc_type[1]
       /\ Given(a.date_from) => a.date_from[1] <= r.doc_date
       /\ Given(a.date_to) => r.doc_date <= a.date_to[1]

NoFilters(c) ==
    /\ c.args.query = None /\ c.args.date_from = None /\ c.args.date_to = None
    /\ IF c.op = "search_purchases" THEN c.args.supplier = None
       ELSE c.args.client = None /\ c.args.doc_type = None

TableOf(c) == IF c.op = "search_purchases" THEN store.purchase_prices ELSE store.sales

Count(rows, r) == Cardinality({i \in 1..Len(rows) : rows[i] = r})

Admitted(c) == {i \in 1..Len(TableOf(c)) : Admits(c, TableOf(c)[i])}

IsSearch == call.op \in {"search_purchases", "search_sales"}

\* C9: search_purchases and search_sales return, newest first, the records that
\* the filters admit: with no filter every record is admitted, a date range keeps
\* exactly the records with date_from <= doc_date <= date_to (both ends included,
\* an omitted end unconstrained), and a record is left out only by the limit.
C9_FilterPredicate ==
    (IsSearch /\ call.fail = {}) =>
        LET t == TableOf(call)
            data == result.value.data
            n == Len(data)
        IN /\ result.ok
           /\ NoFilters(call) => Admitted(call) = 1..Len(t)
           /\ \A k \in 1..n :
                 /\ Given(call.args.date_from) => call.args.date_from[1] <= data[k].doc_date
                 /\ Given(call.args.date_to) => data[k].doc_date <= call.args.date_to[1]
           /\ n = Min2(call.args.limit, Cardinality(Admitted(call)))
           /\ \A k \in 1..n : Count(data, data[k]) <= Cardinality({i \in Admitted(call) : t[i] = data[k]})
           /\ \A j \in 1..n, k \in 1..n : j < k => data[j].doc_date >= data[k].doc_date
           /\ \A i \in Admitted(call) :
                 Count(data, t[i]) < Cardinality({j \in Admitted(call) : t[j] = t[i]})
                     => t[i].doc_date <= data[n].doc_date

\* a sales search over both ends of a date range returned the record dated on the
\* boundary day and left out a record of the store dated outside the range
C9_Witness ==
    /\ call.op = "search_sales"
    /\ Given(call.args.date_from) /\ Given(call.args.date_to)
    /\ Len(result.value.data) >= 1
    /\ result.value.data[1].doc_date = call.args.date_to[1]
    /\ \E i \in 1..Len(store.sales) : ~Admits(call, store.sales[i])

\* C10: the count and the sums of `stats` are those of all the records of the
\* store that the filters admit, whatever the limit.
C10_AggregateConsistency ==
    (IsSearch /\ call.fail = {}) =>
        LET t == TableOf(call)
            A == Admitted(call)
            stats == result.value.stats
        IN /\ stats.total_records = Cardinality(A)
           /\ call.op = "search_purchases" =>
                 stats.total_sum = SumOver(A, [i \in A |-> t[i].sum_total])
           /\ call.op = "search_sales" =>
                 /\ stats.sales_sum =
                       SumOver({i \in A : t[i].doc_type = REALIZATION}, [i \in A |-> t[i].sum_with_vat])
                 /\ stats.corrections_sum =
                       SumOver({i \in A : t[i].doc_type = CORRECTION}, [i \in A |-> t[i].sum_with_vat])

\* a filtered purchase search whose limit cut the rows short of the records counted
C10_Witness ==
    /\ call.op = "search_purchases"
    /\ ~NoFilters(call)
    /\ Len(result.value.data) = 1
    /\ result.value.stats.total_records = 2
    /\ result.value.stats.total_sum > result.value.data[1].sum_total

\* the purchase records whose product name holds the text asked for
PriceMatches ==
    {i \in 1..Len(store.purchase_prices) :
        Occurs(call.args.nomenclature, store.purchase_prices[i].nomenclature_name)}

\* C11: get_price_dynamics (its query answered by the store) tells no data from
\* data of value zero.  When no purchase record matches it returns empty data and
\* the not-found message, and no stats; when records match it returns them with
\* a stats block and no message, first_price and last_price being the prices of
\* a record of the earliest and of the latest matching date, and min_price and
\* max_price bounding every matching price.
C11_EmptyMarker ==
    (call.op = "get_price_dynamics" /\ call.fail = {}) =>
        LET p == store.purchase_prices
            M == PriceMatches
            v == result.value
        IN /\ result.ok
           /\ M = {} =>
                 /\ v.data = <<>>
                 /\ "message" \in DOMAIN v /\ v.message = NOT_FOUND
                 /\ "stats" \notin DOMAIN v
           /\ M # {} =>
                 /\ "stats" \in DOMAIN v /\ "message" \notin DOMAIN v
                 /\ Len(v.data) = Cardinality(M)
                 /\ \E i \in M : /\ \A j \in M : p[i].doc_date <= p[j].doc_date
                                 /\ v.stats.first_price = p[i].price
                 /\ \E i \in M : /\ \A j \in M : p[i].doc_date >= p[j].doc_date
                                 /\ v.stats.last_price = p[i].price
                 /\ \A i \in M : v.stats.min_price <= p[i].price /\ p[i].price <= v.stats.max_price
                 /\ \E i \in M : v.stats.min_price = p[i].price
                 /\ \E i \in M : v.stats.max_price = p[i].price

\* two matching records, both of price zero, came back with a stats block of
\* zeros and without the not-found message, while the store holds them
C11_Witness ==
    /\ call.op = "get_price_dynamics"
    /\ Cardinality(PriceMatches) = 2
    /\ "stats" \in DOMAIN result.value
    /\ result.value.stats.first_price = 0 /\ result.value.stats.max_price = 0
    /\ "message" \notin DOMAIN result.value

IsLeaderboard == call.op \in {"get_top_clients", "get_top_products"}

\* the column that names the entity of the leaderboard
EntityColumn == IF call.op = "get_top_clients" THEN "client_name" ELSE "nomenclature_name"

\* the sale records of the store inside the date range of the call
SalesInRange ==
    {i \in 1..Len(store.sales) :
        /\ store.sales[i].doc_type = REALIZATION
        /\ Given(call.args.date_from) => call.args.date_from[1] <= store.sales[i].doc_date
        /\ Given(call.args.date_to) => store.sales[i].doc_date <= call.args.date_to[1]}

Entities == {store.sales[i][EntityColumn] : i \in SalesInRange}

EntityTotal(e) ==
    SumOver({i \in SalesInRange : store.sales[i][EntityColumn] = e},
            [i \in SalesInRange |-> store.sales[i].sum_with_vat])

\* C12: a leaderboard (its query answered by the store) has one row per entity
\* that has sale records in the date range, the total of a row is the sum of
\* the amounts of those records, the rows stand in non-increasing order of
\* total, there are at most `limit` of them, entities are left out only by the
\* limit, and none left out has a greater total than one returned.
C12_Leaderboard ==
    (IsLeaderboard /\ call.fail = {}) =>
        LET data == result.value.data
            n == Len(data)
            Shown == {data[k][EntityColumn] : k \in 1..n}
        IN /\ result.ok
           /\ Shown \subseteq Entities
           /\ Cardinality(Shown) = n
           /\ \A k \in 1..n : data[k].total_sum = EntityTotal(data[k][EntityColumn])
           /\ \A j \in 1..n, k \in 1..n : j < k => data[j].total_sum >= data[k].total_sum
           /\ n <= call.args.limit
           /\ n = Min2(call.args.limit, Cardinality(Entities))
           /\ \A e \in Entities \ Shown : \A k \in 1..n : EntityTotal(e) <= data[k].total_sum

\* a leaderboard of clients over a date range, cut to one row by the limit: two
\* clients have sale records in the range and the one left out has the smaller total
C12_Witness ==
    /\ call.op = "get_top_clients"
    /\ Given(call.args.date_from)
    /\ Len(result.value.data) = 1
    /\ Cardinality(Entities) = 2
    /\ \E e \in Entities : EntityTotal(e) < result.value.data[1].total_sum

-----------------------------------------------------------------------------
(* SpecDispatch: execute_tool on every tool name, argument mapping and db condition *)

\* stores of at most one row
SmallStores ==
    {st \in Stores : Len(st.purchase_prices) + Len(st.sales) + Len(st.nomenclature) + Len(st.clients) <= 1}

\* argument mappings the model may send: none, well formed, an unknown key, a
\* negative limit, a date that is no date
ToolInputs ==
    {EmptyDict,
     << <<"query", Some(<<"a">>)>> >>,
     << <<"nomenclature", <<"a">> >> >>,
     << <<"date_from", Some(2)>>, <<"limit", 1>> >>,
     << <<"limit", 1>>, <<"date_from", Some(2)>> >>,
     << <<"limit", 0 - 1>> >>,
     << <<"date_to", Some(0)>> >>,
     << <<"bogus", Some(<<"a">>)>> >>}

RERUN_EXCEPTION == <<"RerunException">>

InitDispatch ==
    /\ store \in SmallStores
    /\ call = NoCall
    /\ result = NoResult
    /\ output = NoOutput
    /\ AgentIdle

\* one call of execute_tool.  When a query of the operation fails, execute_query
\* calls st.error (line 52) inside the call; with a rerun pending Streamlit ends
\* the run there by RerunException, which is no Exception: the except clause of
\* line 481 lets it through and the call returns nothing.
Dispatch ==
    \E name \in ToolNames \cup {UNKNOWN_TOOL}, input \in ToolInputs, fail \in SUBSET (1..4),
       scan \in Scans, rerun \in BOOLEAN :
        LET db == [tables |-> store, fail |-> fail, scan |-> scan]
        IN /\ call = NoCall
           /\ call' = [op |-> name, input |-> input, fail |-> fail, rerun |-> rerun]
           /\ IF rerun /\ DbErrorShown(name, input, db)
              THEN /\ result' = Raise(RERUN_EXCEPTION)
                   /\ output' = Raise(RERUN_EXCEPTION)
              ELSE /\ result' = Invoke(name, input, db)
                   /\ output' = execute_tool(name, input, db)
           /\ UNCHANGED store
           /\ UNCHANGED agentVars

NextDispatch == Dispatch

SpecDispatch == InitDispatch /\ [][NextDispatch]_vars

-----------------------------------------------------------------------------
(* Claims about the dispatcher (SpecDispatch) *)

WellFormed(c) ==
    /\ c.op \in ToolNames
    /\ Keys(c.input) \subseteq TOOLS(c.op).properties
    /\ TOOLS(c.op).required \subseteq Keys(c.input)

EnvelopeType(name) ==
    CASE name = "search_purchases" -> "purchases"
      [] name = "search_sales" -> "sales"
      [] name = "search_nomenclature" -> "nomenclature"
      [] name = "search_clients" -> "clients"
      [] name = "get_price_dynamics" -> "price_dynamics"
      [] name = "get_top_clients" -> "top_clients"
      [] name = "get_top_products" -> "top_products"
      [] name = "get_summary_stats" -> "summary"

IsText(x) == "json" \in DOMAIN x /\ "len" \in DOMAIN x

\* C3: execute_tool never raises: whatever the name, the argument mapping and the
\* condition of the store it returns a text; an unknown name or a failure inside
\* the operation gives a payload with an `error` field, and a known name with
\* well-formed arguments gives the envelope of that operation.  The source
\* returns an error payload for get_summary_stats with well-formed arguments when
\* a query of the store fails (.iloc[0] of the empty DataFrame), and lets the
\* RerunException of st.error (line 52) through its except clause.
C3_ExecuteToolTotal ==
    call # NoCall =>
        /\ IsText(output)
        /\ (call.op \notin ToolNames \/ ~result.ok) => "error" \in DOMAIN output.json
        /\ WellFormed(call) =>
              /\ "error" \notin DOMAIN output.json
              /\ output.json.type = EnvelopeType(call.op)

\* C4: a failing store query never makes a data operation raise: the operation
\* returns its envelope, with empty data when all its queries fail.
C4_StoreFailuresAbsorbed ==
    (WellFormed(call) /\ call.fail \cap QueriesOf(call.op) # {}) =>
        /\ result.ok
        /\ result.value.type = EnvelopeType(call.op)
        /\ (QueriesOf(call.op) \subseteq call.fail /\ "data" \in DOMAIN result.value)
              => result.value.data = <<>>

-----------------------------------------------------------------------------
(* Claims about the query text (SpecDAL) *)

\* the same optional filters are present in a and b
SameFilters(a, b) ==
    \A k \in DOMAIN a \ {"limit"} : (a[k] = None) <=> (b[k] = None)

\* C7: no argument value reaches the query text: calls that differ only in the
\* values of their arguments (the limit included) send the same query text.
C7_ValuesNeverInQueryText ==
    /\ call.op = "search_purchases" =>
          \A b \in PurchaseArgs :
              SameFilters(call.args, b) => PurchaseSql(b) = result.value.query_used
    /\ call.op = "search_sales" =>
          \A b \in SalesArgs : SameFilters(call.args, b) => SalesSql(b) = SalesSql(call.args)

-----------------------------------------------------------------------------
(* Claims about the loop and the session (Spec) *)

ToolUseIds(content) ==
    {content[k].id : k \in {j \in 1..Len(content) : content[j].type = "tool_use"}}

IsInvocationTurn(m) ==
    /\ m.role = "assistant"
    /\ "blocks" \in DOMAIN m.content
    /\ ToolUseIds(m.content.blocks) # {}

\* the turn after position i answers the invocations of turn i, one result each
Answered(ms, i) ==
    /\ i < Len(ms)
    /\ ms[i + 1].role = "user"
    /\ "results" \in DOMAIN ms[i + 1].content
    /\ LET rs == ms[i + 1].content.results
       IN /\ {rs[k].tool_use_id : k \in 1..Len(rs)} = ToolUseIds(ms[i].content.blocks)
          /\ Len(rs) = Cardinality(ToolUseIds(ms[i].content.blocks))
          /\ \A k \in 1..Len(rs) : rs[k].type = "tool_result" /\ IsText(rs[k].content)

\* C1: in every transcript sent to the model, each assistant turn that carries
\* invocations is directly followed by one tool-result turn holding exactly one
\* result per invocation id, failed invocations included.
C1_Pairing ==
    pc \in {"awaiting", "answered"} =>
        \A i \in 1..Len(messages) : IsInvocationTurn(messages[i]) => Answered(messages, i)

\* a transcript about to be sent holds a turn of two invocations, one of which
\* ended in an error and one of which did not
C1_Witness ==
    /\ pc = "awaiting"
    /\ \E i \in 1..(Len(messages) - 1) :
          /\ IsInvocationTurn(messages[i])
          /\ Cardinality(ToolUseIds(messages[i].content.blocks)) = 2
          /\ \E k \in 1..2 : "error" \in DOMAIN messages[i + 1].content.results[k].content.json
          /\ \E k \in 1..2 : "error" \notin DOMAIN messages[i + 1].content.results[k].content.json

\* C2: one call of get_ai_response performs at most a fixed number of invocation
\* rounds, whatever the model responds. The loop of the source is "while True"
\* and goes round again on every response with stop_reason tool_use, so the
\* number of rounds of a call follows the model: every cap below the number of
\* rounds explored is passed.
C2_RoundsCapped == pc \in {"awaiting", "executing", "answered"} => CallRounds < MaxRounds

\* C5: after a provider failure the session is the session before the input, then
\* the user's message, then the labelled error as the assistant's turn; the next
\* input can be handled.  The source appends the error turn (line 674) after it
\* has shown it with st.error (line 673): when a rerun is pending the run ends
\* there and the session keeps the user's message without the error turn.
C5_ProviderFailure ==
    (pc = "idle" /\ outcome = "failed") =>
        /\ session_messages =
              before \o <<Turn("user", Text(user_input)),
                          Turn("assistant", Text(ErrorMessage(PROVIDER_ERROR)))>>
        /\ turns < MaxTurns => ENABLED SubmitInput

\* C6: between inputs the audit log holds, in order, an entry for every
\* invocation execute_tool was called for since the session was cleared.
C6_AuditLogComplete == pc = "idle" => tools_log = dispatched

\* C8: the session transcript only grows: while an input is handled it is the
\* earlier transcript plus the user's turn, afterwards the earlier transcript
\* plus one user turn and one assistant turn, and chat_history is left as given.
\* The source appends the user's turn first (line 653) and the assistant's turn
\* after Streamlit calls (665, 673) at which a pending rerun ends the run: the
\* input is then left as a user turn without an assistant turn, and the next
\* input follows it directly.
C8_AppendOnly ==
    /\ pc # "idle" =>
          /\ session_messages = Append(before, Turn("user", Text(user_input)))
          /\ chat_history = before
    /\ (pc = "idle" /\ outcome # "none") =>
          /\ Len(session_messages) = Len(before) + 2
          /\ SubSeq(session_messages, 1, Len(before)) = before
          /\ session_messages[Len(before) + 1] = Turn("user", Text(user_input))
          /\ session_messages[Len(before) + 2].role = "assistant"
          /\ chat_history = before
    /\ Len(session_messages) = 2 * turns + (IF pc = "idle" THEN 0 ELSE 1)

\* C13: the call is Answered only by a response that holds no invocation, so
\* that no invocation of a response is left undispatched.  The source tests
\* response.stop_reason, not the content: a response that carries tool_use
\* blocks under another stop reason (max_tokens, end_turn) is taken as the final
\* answer, its text returned and its invocations never passed to execute_tool.
C13_TransitionsFollowContent ==
    pc = "answered" =>
        /\ ToolUseBlocks(response.content) = <<>>
        /\ final_response = FinalText(response.content)

====
